---- MODULE Spec2Model ----
(***************************************************************************)
(* Cross-account Lambda lister (CrossAccountLambdaLister.py).              *)
(*                                                                         *)
(* The handler is a sequential client of five remote calls:                *)
(*   organizations.list_accounts (paginated), ec2.describe_regions,        *)
(*   sts.assume_role, lambda.list_functions (paginated) and                *)
(*   lambda.get_function_configuration.                                    *)
(* Every remote call is one step of the model.  Its outcome is chosen by   *)
(* the environment: a result, a botocore ClientError, or an exception of   *)
(* another class ("Other"), which no except clause of the program catches. *)
(* The remote services record what they were asked and what they answered  *)
(* in history variables (upstream, fetches, assumeOutcome, ...); the       *)
(* program never reads them.                                               *)
(***************************************************************************)
EXTENDS Integers, Sequences, FiniteSets, TLC

(***************************************************************************)
(* Bounds of the model.                                                    *)
(***************************************************************************)
MaxAccounts == 2     \* accounts in the organization
MaxRegions == 2      \* regions returned by describe_regions
MaxFunctions == 2    \* function summaries delivered during one run
MaxPageLen == 2      \* function summaries on one list_functions page

AccountPool == <<"111111111111", "222222222222", "333333333333", "444444444444">>
RegionPool == <<"us-east-1", "eu-west-1", "ap-south-1", "sa-east-1">>

AccountIds == {AccountPool[i] : i \in 1..MaxAccounts}
RegionNames == {RegionPool[i] : i \in 1..MaxRegions}
FunctionNames == {"alpha", "beta"}

\* What get_function_configuration can answer in the handler's runs: a
\* deprecated runtime, one with no scheduled date, one the table does not
\* know, and a configuration with no Runtime field.
NoRuntime == "<no Runtime field>"
RuntimeAnswers == {"nodejs4.3", "python3.12", "rust1.x", NoRuntime}

ClientError == "ClientError"
Other == "Other"

(***************************************************************************)
(* The deprecation catalog.                                                *)
(***************************************************************************)
Rec(dep, d) == [deprecated |-> dep, date |-> d]

RUNTIME_DEPRECATIONS ==
    ("dotnet6" :> Rec(FALSE, "2024-11-12")) @@
    ("dotnet7" :> Rec(FALSE, "N/A")) @@
    ("dotnetcore1.0" :> Rec(TRUE, "2019-07-30")) @@
    ("dotnetcore2.0" :> Rec(TRUE, "2019-05-30")) @@
    ("dotnetcore2.1" :> Rec(TRUE, "2022-01-05")) @@
    ("dotnetcore3.1" :> Rec(TRUE, "2023-04-03")) @@
    ("go1.x" :> Rec(FALSE, "2024-07-12")) @@
    ("go2.x" :> Rec(FALSE, "N/A")) @@
    ("java8" :> Rec(FALSE, "2024-01-08")) @@
    ("java8.al2" :> Rec(FALSE, "2025-05-30")) @@
    ("java11" :> Rec(FALSE, "2025-01-08")) @@
    ("java17" :> Rec(FALSE, "2026-09-14")) @@
    ("java21" :> Rec(FALSE, "N/A")) @@
    ("nodejs" :> Rec(TRUE, "2016-10-31")) @@
    ("nodejs4.3" :> Rec(TRUE, "2020-04-06")) @@
    ("nodejs4.3-edge" :> Rec(TRUE, "2019-04-30")) @@
    ("nodejs6.10" :> Rec(TRUE, "2019-08-12")) @@
    ("nodejs8.10" :> Rec(TRUE, "2020-03-06")) @@
    ("nodejs10.x" :> Rec(TRUE, "2022-02-14")) @@
    ("nodejs12.x" :> Rec(TRUE, "2023-03-31")) @@
    ("nodejs14.x" :> Rec(FALSE, "2024-11-27")) @@
    ("nodejs16.x" :> Rec(FALSE, "2025-06-12")) @@
    ("nodejs18.x" :> Rec(FALSE, "2025-06-12")) @@
    ("nodejs20.x" :> Rec(FALSE, "N/A")) @@
    ("provided" :> Rec(FALSE, "N/A")) @@
    ("provided.al2" :> Rec(FALSE, "N/A")) @@
    ("provided.al2023" :> Rec(FALSE, "N/A")) @@
    ("python2.7" :> Rec(TRUE, "2021-07-15")) @@
    ("python3.6" :> Rec(TRUE, "2022-07-18")) @@
    ("python3.7" :> Rec(TRUE, "2023-11-27")) @@
    ("python3.8" :> Rec(FALSE, "2024-10-14")) @@
    ("python3.9" :> Rec(FALSE, "2025-08-24")) @@
    ("python3.10" :> Rec(FALSE, "2026-07-30")) @@
    ("python3.11" :> Rec(FALSE, "2027-09-24")) @@
    ("python3.12" :> Rec(FALSE, "N/A")) @@
    ("ruby2.5" :> Rec(TRUE, "2022-07-30")) @@
    ("ruby2.6" :> Rec(TRUE, "2022-05-30")) @@
    ("ruby2.7" :> Rec(FALSE, "2023-11-07")) @@
    ("ruby3.2" :> Rec(FALSE, "2026-04-09"))

\* Mutant: the "N/A" branch is missing.
get_deprecation_info_NoSentinel(runtime) ==
    IF runtime \in DOMAIN RUNTIME_DEPRECATIONS
    THEN LET info == RUNTIME_DEPRECATIONS[runtime]
         IN  IF info.deprecated
             THEN "Deprecated since " \o info.date
             ELSE "Will be deprecated on " \o info.date
    ELSE "No deprecation information available"

get_deprecation_info(runtime) ==
    IF runtime \in DOMAIN RUNTIME_DEPRECATIONS
    THEN LET info == RUNTIME_DEPRECATIONS[runtime]
         IN  IF info.deprecated
             THEN "Deprecated since " \o info.date
             ELSE IF info.date = "N/A"
                  THEN "No scheduled deprecation"
                  ELSE "Will be deprecated on " \o info.date
    ELSE "No deprecation information available"


(***************************************************************************)
(* State.                                                                  *)
(***************************************************************************)
VARIABLES
    \* lambda_handler
    pc,             \* position of the handler
    accounts,       \* account ids of the records collected from the directory
    regions,        \* region names returned by describe_regions
    ai,             \* position of "for account in accounts"
    ri,             \* position of "for region in regions"
    session,        \* the handler's session variable
    functions,      \* the handler's functions variable (line 127)
    all_functions,  \* the running aggregate
    response,       \* what the handler returned
    \* list_functions_in_account
    lf_session, lf_account_id, lf_region,   \* its parameters
    lf_functions,   \* its functions list
    page,           \* page['Functions'] of the page being consumed
    fi,             \* position of "for function in page['Functions']"
    \* the remote services' records of the run
    delivered,      \* function summaries delivered during the run
    nDescribe,      \* describe_regions calls
    nAssume,        \* assume_role calls, per target account
    assumeOutcome,  \* outcome of the last assume_role call, per target account
    nListing,       \* function listings started, per (account, region)
    listingOutcome, \* how the listing of (account, region) ended
    upstream,       \* function summaries delivered, per (account, region)
    fetches,        \* get_function_configuration calls, per (account, region)
    lastCall,       \* the last remote call and its outcome
    failedOps,      \* the operations that have failed during the run
    \* a single catalog lookup
    lookup_arg, lookup_result

handlerVars == <<pc, accounts, regions, ai, ri, session, functions, all_functions, response>>
listerVars == <<lf_session, lf_account_id, lf_region, lf_functions, page, fi>>
serviceVars == <<delivered, nDescribe, nAssume, assumeOutcome,
                 nListing, listingOutcome, upstream, fetches, lastCall, failedOps>>
lookupVars == <<lookup_arg, lookup_result>>
vars == <<handlerVars, listerVars, serviceVars, lookupVars>>

Pairs == AccountIds \X RegionNames
NoSession == [account |-> "<unbound>", serial |-> 0]
NoResponse == [statusCode |-> 0, body |-> <<>>]
NoCall == [op |-> "none", account |-> "", region |-> "", idx |-> 0, outcome |-> "none"]
NotLookedUp == "<not looked up>"

Range(s) == {s[i] : i \in 1..Len(s)}
Min(a, b) == IF a < b THEN a ELSE b

\* The sequences over S of length at most n that repeat no element.
NoDupSeqs(S, n) ==
    {s \in UNION {[1..k -> S] : k \in 0..n} :
        \A i, j \in 1..Len(s) : i # j => s[i] # s[j]}

Call(op, account, region, idx, outcome) ==
    [op |-> op, account |-> account, region |-> region, idx |-> idx, outcome |-> outcome]

HandlerInit ==
    /\ accounts = <<>>
    /\ regions = <<>>
    /\ ai = 1
    /\ ri = 1
    /\ session = NoSession
    /\ functions = <<>>
    /\ all_functions = <<>>
    /\ response = NoResponse
    /\ lf_session = NoSession
    /\ lf_account_id = ""
    /\ lf_region = ""
    /\ lf_functions = <<>>
    /\ page = <<>>
    /\ fi = 1
    /\ delivered = 0
    /\ nDescribe = 0
    /\ nAssume = [a \in AccountIds |-> 0]
    /\ assumeOutcome = [a \in AccountIds |-> "none"]
    /\ nListing = [p \in Pairs |-> 0]
    /\ listingOutcome = [p \in Pairs |-> "none"]
    /\ upstream = [p \in Pairs |-> <<>>]
    /\ fetches = [p \in Pairs |-> <<>>]
    /\ lastCall = NoCall
    /\ failedOps = {}

Init ==
    /\ pc = "list_accounts"
    /\ HandlerInit
    /\ lookup_arg = ""
    /\ lookup_result = NotLookedUp

(***************************************************************************)
(* lambda_handler, lines 96-103: the directory and the region catalog.     *)
(***************************************************************************)
\* An exception no except clause catches leaves the handler.
Raise == pc' = "aborted"

\* The pages the directory may deliver next: account records not yet listed
\* (an account is listed once).  A page without records changes nothing in
\* the program and is left out.
AccountPages ==
    NoDupSeqs(AccountIds \ Range(accounts), MaxAccounts - Len(accounts)) \ {<<>>}

\* accounts.extend(page['Accounts'])
ListAccountsPage ==
    /\ pc = "list_accounts"
    /\ Len(accounts) < MaxAccounts
    /\ \E p \in AccountPages :
          accounts' = accounts \o p
    /\ lastCall' = Call("list_accounts", "", "", Len(accounts) + 1, "ok")
    /\ UNCHANGED <<pc, regions, ai, ri, session, functions, all_functions, response>>
    /\ UNCHANGED listerVars
    /\ UNCHANGED <<delivered, nDescribe, nAssume, assumeOutcome, nListing,
                   listingOutcome, upstream, fetches, failedOps>>
    /\ UNCHANGED lookupVars

\* The paginator is exhausted: the for loop of line 99 ends.
ListAccountsEnd ==
    /\ pc = "list_accounts"
    /\ pc' = "describe_regions"
    /\ UNCHANGED <<accounts, regions, ai, ri, session, functions, all_functions, response>>
    /\ UNCHANGED <<listerVars, serviceVars, lookupVars>>

\* Mutant: the directory listing stands in a try block whose except clause
\* goes on with the accounts collected so far.
list_accounts_error_Caught ==
    pc' = "describe_regions"

\* Lines 98-100 stand in no try block: the exception leaves the handler.
list_accounts_error ==
    Raise

\* A page request of list_accounts raises.
ListAccountsFail ==
    /\ pc = "list_accounts"
    /\ \E kind \in {ClientError, Other} :
          lastCall' = Call("list_accounts", "", "", Len(accounts) + 1, kind)
    /\ failedOps' = failedOps \cup {"list_accounts"}
    /\ list_accounts_error
    /\ UNCHANGED <<accounts, regions, ai, ri, session, functions, all_functions, response>>
    /\ UNCHANGED listerVars
    /\ UNCHANGED <<delivered, nDescribe, nAssume, assumeOutcome,
                   nListing, listingOutcome, upstream, fetches>>
    /\ UNCHANGED lookupVars

\* regions = [region['RegionName'] for region in ...]; all_functions = []
DescribeRegionsOk ==
    /\ pc = "describe_regions"
    /\ \E rs \in NoDupSeqs(RegionNames, MaxRegions) : regions' = rs
    /\ nDescribe' = nDescribe + 1
    /\ lastCall' = Call("describe_regions", "", "", 1, "ok")
    /\ all_functions' = <<>>
    /\ ai' = 1
    /\ pc' = "account_loop"
    /\ UNCHANGED <<accounts, ri, session, functions, response>>
    /\ UNCHANGED listerVars
    /\ UNCHANGED <<delivered, nAssume, assumeOutcome, nListing,
                   listingOutcome, upstream, fetches, failedOps>>
    /\ UNCHANGED lookupVars

\* describe_regions raises: line 103 stands in no try block.
DescribeRegionsFail ==
    /\ pc = "describe_regions"
    /\ \E kind \in {ClientError, Other} :
          lastCall' = Call("describe_regions", "", "", 1, kind)
    /\ nDescribe' = nDescribe + 1
    /\ failedOps' = failedOps \cup {"describe_regions"}
    /\ Raise
    /\ UNCHANGED <<accounts, regions, ai, ri, session, functions, all_functions, response>>
    /\ UNCHANGED listerVars
    /\ UNCHANGED <<delivered, nAssume, assumeOutcome, nListing,
                   listingOutcome, upstream, fetches>>
    /\ UNCHANGED lookupVars

(***************************************************************************)
(* lambda_handler, lines 110-136: the account loop.                        *)
(***************************************************************************)
\* What STS records of an assume_role call for the account of the RoleArn.
StsRecords(account_id, outcome) ==
    /\ nAssume' = [nAssume EXCEPT ![account_id] = @ + 1]
    /\ assumeOutcome' = [assumeOutcome EXCEPT ![account_id] = outcome]
    /\ lastCall' = Call("assume_role", account_id, "", nAssume[account_id] + 1, outcome)
    /\ failedOps' = IF outcome = "ok" THEN failedOps ELSE failedOps \cup {"assume_role"}

\* Lines 114-124: the credentials are those STS issued for account_id in this call.
AssumeRoleOk ==
    /\ pc = "account_loop"
    /\ ai <= Len(accounts)
    /\ StsRecords(accounts[ai], "ok")
    /\ session' = [account |-> accounts[ai], serial |-> nAssume[accounts[ai]] + 1]
    /\ ri' = 1
    /\ pc' = "region_loop"
    /\ UNCHANGED <<accounts, regions, ai, functions, all_functions, response>>
    /\ UNCHANGED listerVars
    /\ UNCHANGED <<delivered, nDescribe, nListing, listingOutcome,
                   upstream, fetches>>
    /\ UNCHANGED lookupVars

\* Mutant: the except clause ends the account loop.
assume_role_except_Break ==
    /\ ai' = Len(accounts) + 1
    /\ pc' = "account_loop"
    /\ UNCHANGED <<ri, session>>

\* Mutant: the except clause re-raises.
assume_role_except_Reraise ==
    /\ pc' = "aborted"
    /\ UNCHANGED <<ai, ri, session>>

\* Mutant: the except clause tries the same account again.
assume_role_except_Retry ==
    /\ pc' = "account_loop"
    /\ UNCHANGED <<ai, ri, session>>

\* Mutant: only the assume_role call stands in the try block, so the region
\* loop runs with the session variable as it is (a NameError when unbound).
assume_role_except_FallThrough ==
    /\ pc' = IF session = NoSession THEN "aborted" ELSE "region_loop"
    /\ ri' = 1
    /\ UNCHANGED <<ai, session>>

\* Lines 130-131: the message is printed and the for loop takes the next account.
assume_role_except ==
    /\ ai' = ai + 1
    /\ pc' = "account_loop"
    /\ UNCHANGED <<ri, session>>

AssumeRoleClientError ==
    /\ pc = "account_loop"
    /\ ai <= Len(accounts)
    /\ StsRecords(accounts[ai], ClientError)
    /\ assume_role_except
    /\ UNCHANGED <<accounts, regions, functions, all_functions, response>>
    /\ UNCHANGED listerVars
    /\ UNCHANGED <<delivered, nDescribe, nListing, listingOutcome,
                   upstream, fetches>>
    /\ UNCHANGED lookupVars

\* An exception that is no ClientError passes the except clause of line 130.
AssumeRoleOther ==
    /\ pc = "account_loop"
    /\ ai <= Len(accounts)
    /\ StsRecords(accounts[ai], Other)
    /\ Raise
    /\ UNCHANGED <<accounts, regions, ai, ri, session, functions, all_functions, response>>
    /\ UNCHANGED listerVars
    /\ UNCHANGED <<delivered, nDescribe, nListing, listingOutcome,
                   upstream, fetches>>
    /\ UNCHANGED lookupVars

\* Line 127: the call list_functions_in_account(session, account_id, region);
\* lines 62-66 create the client and the paginator of that session and region.
CallListFunctions ==
    /\ pc = "region_loop"
    /\ ri <= Len(regions)
    /\ lf_session' = session
    /\ lf_account_id' = accounts[ai]
    /\ lf_region' = regions[ri]
    /\ lf_functions' = <<>>
    /\ nListing' = [nListing EXCEPT ![<<session.account, regions[ri]>>] = @ + 1]
    /\ listingOutcome' = [listingOutcome EXCEPT ![<<session.account, regions[ri]>>] = "running"]
    /\ pc' = "paginate"
    /\ UNCHANGED <<accounts, regions, ai, ri, session, functions, all_functions, response>>
    /\ UNCHANGED <<page, fi>>
    /\ UNCHANGED <<delivered, nDescribe, nAssume, assumeOutcome,
                   upstream, fetches, lastCall, failedOps>>
    /\ UNCHANGED lookupVars

\* The region loop of line 126 ends: the try block ends and the next account is taken.
NextAccount ==
    /\ pc = "region_loop"
    /\ ri > Len(regions)
    /\ ai' = ai + 1
    /\ pc' = "account_loop"
    /\ UNCHANGED <<accounts, regions, ri, session, functions, all_functions, response>>
    /\ UNCHANGED <<listerVars, serviceVars, lookupVars>>

\* Mutant: the rows of a pair are put in front of the aggregate.
extend_all_functions_Prepend ==
    all_functions' = functions \o all_functions

\* Line 128: all_functions.extend(functions)
extend_all_functions ==
    all_functions' = all_functions \o functions

Extend ==
    /\ pc = "extend"
    /\ extend_all_functions
    /\ ri' = ri + 1
    /\ pc' = "region_loop"
    /\ UNCHANGED <<accounts, regions, ai, session, functions, response>>
    /\ UNCHANGED <<listerVars, serviceVars, lookupVars>>

\* Lines 133-136.
Return ==
    /\ pc = "account_loop"
    /\ ai > Len(accounts)
    /\ response' = [statusCode |-> 200, body |-> all_functions]
    /\ pc' = "returned"
    /\ UNCHANGED <<accounts, regions, ai, ri, session, functions, all_functions>>
    /\ UNCHANGED <<listerVars, serviceVars, lookupVars>>

(***************************************************************************)
(* list_functions_in_account, lines 61-89.                                 *)
(***************************************************************************)
\* The (account, region) the Lambda client of the call talks to.
ClientPair == <<lf_session.account, lf_region>>

Arn(account, region, name) ==
    "arn:aws:lambda:" \o region \o ":" \o account \o ":function:" \o name

\* A function summary of the listing of pair p.
Summary(p, name) == [FunctionName |-> name, FunctionArn |-> Arn(p[1], p[2], name)]

\* The pages the listing may deliver next.  A page without summaries changes
\* nothing in the program and is left out.
FunctionPages ==
    UNION {[1..n -> {Summary(ClientPair, name) : name \in FunctionNames}] :
              n \in 1..Min(MaxPageLen, MaxFunctions - delivered)}

\* Lines 79-86.
Row(account_id, region, function, runtime, deprecation_info) ==
    [AccountId |-> account_id,
     Region |-> region,
     FunctionName |-> function.FunctionName,
     FunctionArn |-> function.FunctionArn,
     Runtime |-> runtime,
     DeprecationInfo |-> deprecation_info]

\* Mutant: a configuration without a Runtime field gets the status "Unknown".
fetched_row_UnknownStatus(function, answer) ==
    IF answer = NoRuntime
    THEN Row(lf_account_id, lf_region, function, "Unknown", "Unknown")
    ELSE Row(lf_account_id, lf_region, function, answer, get_deprecation_info(answer))

\* Lines 72-73 and 79-86: function_config.get('Runtime', 'Unknown'), the lookup, the row.
fetched_row(function, answer) ==
    LET runtime == IF answer = NoRuntime THEN "Unknown" ELSE answer
        deprecation_info == get_deprecation_info(runtime)
    IN  Row(lf_account_id, lf_region, function, runtime, deprecation_info)

\* Lines 74-77 and 79-86: the row of a function whose configuration fetch failed.
config_error_row(function) ==
    Row(lf_account_id, lf_region, function, "Error retrieving", "Unknown")

\* The inner for loop of line 67 takes the next function of the page, or the
\* outer loop of line 66 asks for the next page.
NextFunction ==
    /\ fi' = fi + 1
    /\ pc' = IF fi < Len(page) THEN "functions" ELSE "paginate"

\* A page of the listing arrives.
ListFunctionsPage ==
    /\ pc = "paginate"
    /\ delivered < MaxFunctions
    /\ \E pg \in FunctionPages :
          /\ page' = pg
          /\ upstream' = [upstream EXCEPT ![ClientPair] = @ \o pg]
          /\ delivered' = delivered + Len(pg)
          /\ pc' = "functions"
    /\ fi' = 1
    /\ lastCall' = Call("list_functions", ClientPair[1], ClientPair[2], Len(upstream[ClientPair]) + 1, "ok")
    /\ UNCHANGED <<accounts, regions, ai, ri, session, functions, all_functions, response>>
    /\ UNCHANGED <<lf_session, lf_account_id, lf_region, lf_functions>>
    /\ UNCHANGED <<nDescribe, nAssume, assumeOutcome, nListing, listingOutcome,
                   fetches, failedOps>>
    /\ UNCHANGED lookupVars

\* Line 89: return functions, received by line 127.
list_functions_return ==
    /\ functions' = lf_functions
    /\ pc' = "extend"

\* The paginator is exhausted.
ListFunctionsEnd ==
    /\ pc = "paginate"
    /\ listingOutcome' = [listingOutcome EXCEPT ![ClientPair] = "done"]
    /\ list_functions_return
    /\ UNCHANGED <<accounts, regions, ai, ri, session, all_functions, response>>
    /\ UNCHANGED listerVars
    /\ UNCHANGED <<delivered, nDescribe, nAssume, assumeOutcome,
                   nListing, upstream, fetches, lastCall, failedOps>>
    /\ UNCHANGED lookupVars

\* Mutant: the rows accumulated before the failure are dropped.
list_functions_except_Discard ==
    /\ functions' = <<>>
    /\ pc' = "extend"

\* Lines 87-89: the message is printed and the rows accumulated so far are returned.
list_functions_except ==
    list_functions_return

\* A page request of the listing fails with a ClientError.
ListFunctionsClientError ==
    /\ pc = "paginate"
    /\ listingOutcome' = [listingOutcome EXCEPT ![ClientPair] = ClientError]
    /\ lastCall' = Call("list_functions", ClientPair[1], ClientPair[2], Len(upstream[ClientPair]) + 1, ClientError)
    /\ failedOps' = failedOps \cup {"list_functions"}
    /\ list_functions_except
    /\ UNCHANGED <<accounts, regions, ai, ri, session, all_functions, response>>
    /\ UNCHANGED listerVars
    /\ UNCHANGED <<delivered, nDescribe, nAssume, assumeOutcome,
                   nListing, upstream, fetches>>
    /\ UNCHANGED lookupVars

\* An exception that is no ClientError passes the except clauses of lines 87 and 130.
ListFunctionsOther ==
    /\ pc = "paginate"
    /\ listingOutcome' = [listingOutcome EXCEPT ![ClientPair] = Other]
    /\ lastCall' = Call("list_functions", ClientPair[1], ClientPair[2], Len(upstream[ClientPair]) + 1, Other)
    /\ failedOps' = failedOps \cup {"list_functions"}
    /\ Raise
    /\ UNCHANGED <<accounts, regions, ai, ri, session, functions, all_functions, response>>
    /\ UNCHANGED listerVars
    /\ UNCHANGED <<delivered, nDescribe, nAssume, assumeOutcome,
                   nListing, upstream, fetches>>
    /\ UNCHANGED lookupVars

\* What the Lambda service records of a get_function_configuration call.
LambdaRecords(name, outcome) ==
    /\ fetches' = [fetches EXCEPT ![ClientPair] =
                      Append(@, [FunctionName |-> name, outcome |-> outcome])]
    /\ lastCall' = Call("get_function_configuration", ClientPair[1], ClientPair[2],
                        Len(fetches[ClientPair]) + 1, outcome)
    /\ failedOps' = IF outcome \in {ClientError, Other}
                    THEN failedOps \cup {"get_function_configuration"}
                    ELSE failedOps

\* Lines 69-73 and 79-86: the fetch answers.
GetFunctionConfigurationOk ==
    /\ pc = "functions"
    /\ \E answer \in RuntimeAnswers :
          /\ LambdaRecords(page[fi].FunctionName, answer)
          /\ lf_functions' = Append(lf_functions, fetched_row(page[fi], answer))
    /\ NextFunction
    /\ UNCHANGED <<accounts, regions, ai, ri, session, functions, all_functions, response>>
    /\ UNCHANGED <<lf_session, lf_account_id, lf_region, page>>
    /\ UNCHANGED <<delivered, nDescribe, nAssume, assumeOutcome,
                   nListing, listingOutcome, upstream>>
    /\ UNCHANGED lookupVars

\* Mutant: the except clause leaves the function out and goes on.
get_function_configuration_except_Skip ==
    /\ lf_functions' = lf_functions
    /\ NextFunction

\* Lines 74-86: the message is printed, the row with the sentinels is appended
\* and the loop goes on.
get_function_configuration_except ==
    /\ lf_functions' = Append(lf_functions, config_error_row(page[fi]))
    /\ NextFunction

\* The fetch fails with a ClientError.
GetFunctionConfigurationClientError ==
    /\ pc = "functions"
    /\ LambdaRecords(page[fi].FunctionName, ClientError)
    /\ get_function_configuration_except
    /\ UNCHANGED <<accounts, regions, ai, ri, session, functions, all_functions, response>>
    /\ UNCHANGED <<lf_session, lf_account_id, lf_region, page>>
    /\ UNCHANGED <<delivered, nDescribe, nAssume, assumeOutcome,
                   nListing, listingOutcome, upstream>>
    /\ UNCHANGED lookupVars

\* An exception that is no ClientError passes the except clauses of lines 74, 87 and 130.
GetFunctionConfigurationOther ==
    /\ pc = "functions"
    /\ LambdaRecords(page[fi].FunctionName, Other)
    /\ Raise
    /\ UNCHANGED <<accounts, regions, ai, ri, session, functions, all_functions, response>>
    /\ UNCHANGED listerVars
    /\ UNCHANGED <<delivered, nDescribe, nAssume, assumeOutcome,
                   nListing, listingOutcome, upstream>>
    /\ UNCHANGED lookupVars

(***************************************************************************)
(* The handler's runs.                                                     *)
(***************************************************************************)
Next ==
    \/ ListAccountsPage
    \/ ListAccountsEnd
    \/ ListAccountsFail
    \/ DescribeRegionsOk
    \/ DescribeRegionsFail
    \/ AssumeRoleOk
    \/ AssumeRoleClientError
    \/ AssumeRoleOther
    \/ CallListFunctions
    \/ NextAccount
    \/ ListFunctionsPage
    \/ ListFunctionsEnd
    \/ ListFunctionsClientError
    \/ ListFunctionsOther
    \/ GetFunctionConfigurationOk
    \/ GetFunctionConfigurationClientError
    \/ GetFunctionConfigurationOther
    \/ Extend
    \/ Return

Spec == Init /\ [][Next]_vars

(***************************************************************************)
(* Single lookups in the catalog.                                          *)
(***************************************************************************)
\* Identifiers the table does not hold.
UnknownRuntimes ==
    {"", "Unknown", "Error retrieving", NoRuntime, "N/A", "python", "python3.13",
     "Python3.12", "python3.12 ", "nodejs22.x", "nodejs4", "java", "dotnet8", "ruby3.3",
     "rust1.x", "go"}

LookupInputs == DOMAIN RUNTIME_DEPRECATIONS \cup UnknownRuntimes

LookupInit ==
    /\ pc = "lookup"
    /\ HandlerInit
    /\ lookup_arg \in LookupInputs
    /\ lookup_result = NotLookedUp

Lookup ==
    /\ pc = "lookup"
    /\ lookup_result' = get_deprecation_info(lookup_arg)
    /\ pc' = "looked_up"
    /\ UNCHANGED lookup_arg
    /\ UNCHANGED <<accounts, regions, ai, ri, session, functions, all_functions, response>>
    /\ UNCHANGED <<listerVars, serviceVars>>

LookupNext == Lookup

LookupSpec == LookupInit /\ [][LookupNext]_vars

(***************************************************************************)
(* What the services' records say the report must hold.                    *)
(***************************************************************************)
RECURSIVE Flatten(_)
Flatten(ss) == IF ss = <<>> THEN <<>> ELSE Head(ss) \o Flatten(Tail(ss))

\* The runtime and the status a row must carry, given what the fetch answered.
ExpectedRuntime(outcome) ==
    IF outcome = ClientError THEN "Error retrieving"
    ELSE IF outcome = NoRuntime THEN "Unknown"
    ELSE outcome

ExpectedStatus(outcome) ==
    IF outcome = ClientError THEN "Unknown"
    ELSE get_deprecation_info(ExpectedRuntime(outcome))

\* The row of the k-th function summary delivered for the pair (a, r).
ExpectedRow(a, r, k) ==
    [AccountId |-> a,
     Region |-> r,
     FunctionName |-> upstream[<<a, r>>][k].FunctionName,
     FunctionArn |-> upstream[<<a, r>>][k].FunctionArn,
     Runtime |-> ExpectedRuntime(fetches[<<a, r>>][k].outcome),
     DeprecationInfo |-> ExpectedStatus(fetches[<<a, r>>][k].outcome)]

\* Every summary delivered for the pair has had its configuration fetched.
AllFetched(a, r) ==
    /\ Len(fetches[<<a, r>>]) = Len(upstream[<<a, r>>])
    /\ \A k \in 1..Len(upstream[<<a, r>>]) :
          fetches[<<a, r>>][k].FunctionName = upstream[<<a, r>>][k].FunctionName

ExpectedRows(a, r) == [k \in 1..Len(upstream[<<a, r>>]) |-> ExpectedRow(a, r, k)]

\* The rows of one account: its regions in region-listing order.
AccountRows(a) == Flatten([j \in 1..Len(regions) |-> ExpectedRows(a, regions[j])])

Assumed(a) == assumeOutcome[a] = "ok"

\* The report without the runtime columns.
Labels(rows) ==
    [k \in 1..Len(rows) |->
        [AccountId |-> rows[k].AccountId, Region |-> rows[k].Region,
         FunctionName |-> rows[k].FunctionName, FunctionArn |-> rows[k].FunctionArn]]

\* The summaries delivered, labelled, in the order accounts x regions.
ExpectedLabels ==
    Flatten([i \in 1..Len(accounts) |->
        IF Assumed(accounts[i])
        THEN Flatten([j \in 1..Len(regions) |->
                [k \in 1..Len(upstream[<<accounts[i], regions[j]>>]) |->
                    [AccountId |-> accounts[i],
                     Region |-> regions[j],
                     FunctionName |-> upstream[<<accounts[i], regions[j]>>][k].FunctionName,
                     FunctionArn |-> upstream[<<accounts[i], regions[j]>>][k].FunctionArn]]])
        ELSE <<>>])

RowsOfAccount(rows, a) == SelectSeq(rows, LAMBDA row : row.AccountId = a)
RowsOfPair(rows, a, r) == SelectSeq(rows, LAMBDA row : row.AccountId = a /\ row.Region = r)

Returned == pc = "returned"
ListingReturned == pc = "extend"

(***************************************************************************)
(* Claims.                                                                 *)
(***************************************************************************)
\* C1: when the listing of an account/region pair does not fail, the list
\* list_functions_in_account returns has one row per function summary
\* delivered, in listing order, whatever subset of the configuration fetches
\* failed with a ClientError: a row whose fetch failed carries Runtime
\* "Error retrieving" and DeprecationInfo "Unknown", every other row carries
\* the runtime the fetch returned ("Unknown" when the configuration has no
\* Runtime field) and the catalog status of that runtime.
C1_FetchFailureIsolated ==
    (ListingReturned /\ listingOutcome[ClientPair] = "done") =>
        /\ AllFetched(ClientPair[1], ClientPair[2])
        /\ Len(functions) = Len(upstream[ClientPair])
        /\ \A k \in 1..Len(functions) :
              LET outcome == fetches[ClientPair][k].outcome
              IN  /\ functions[k].FunctionName = upstream[ClientPair][k].FunctionName
                  /\ functions[k].FunctionArn = upstream[ClientPair][k].FunctionArn
                  /\ outcome = ClientError =>
                        /\ functions[k].Runtime = "Error retrieving"
                        /\ functions[k].DeprecationInfo = "Unknown"
                  /\ outcome # ClientError =>
                        /\ functions[k].Runtime =
                              (IF outcome = NoRuntime THEN "Unknown" ELSE outcome)
                        /\ functions[k].DeprecationInfo =
                              get_deprecation_info(functions[k].Runtime)

\* A listing of two functions returned both rows although the first fetch failed.
C1_Witness ==
    /\ ListingReturned
    /\ listingOutcome[ClientPair] = "done"
    /\ Len(functions) = 2
    /\ fetches[ClientPair][1].outcome = ClientError
    /\ fetches[ClientPair][2].outcome = "python3.12"
    /\ functions[2].DeprecationInfo = "No scheduled deprecation"

\* C2: when the handler returns, whatever subset of the role assumptions
\* failed with a ClientError, the status code is 200, role assumption was
\* attempted for every account of the directory, the body holds no row of an
\* account whose assumption failed and, for every other account, exactly the
\* rows of its regions.
C2_AssumeFailureIsolated ==
    Returned =>
        /\ response.statusCode = 200
        /\ \A i \in 1..Len(accounts) : nAssume[accounts[i]] = 1
        /\ \A a \in AccountIds :
              assumeOutcome[a] = ClientError => RowsOfAccount(response.body, a) = <<>>
        /\ \A i \in 1..Len(accounts) :
              Assumed(accounts[i]) =>
                  RowsOfAccount(response.body, accounts[i]) = AccountRows(accounts[i])

\* The assumption failed for the first account; the second account's rows are returned.
C2_Witness ==
    /\ Returned
    /\ Len(accounts) = 2
    /\ assumeOutcome[accounts[1]] = ClientError
    /\ Assumed(accounts[2])
    /\ Len(response.body) = 2
    /\ \A k \in 1..2 : response.body[k].AccountId = accounts[2]

\* C3: a ClientError of the function listing of a pair does not leave
\* list_functions_in_account: it returns the rows of the summaries delivered
\* before the failure; and when the handler returns, the body holds, for
\* every pair of an assumed account, the rows of the summaries delivered for
\* that pair, whether its listing or another pair's listing failed or not.
C3_ListingFailureKeepsRows ==
    /\ (lastCall.op = "list_functions" /\ lastCall.outcome = ClientError) => pc # "aborted"
    /\ (ListingReturned /\ listingOutcome[ClientPair] = ClientError) =>
          /\ AllFetched(ClientPair[1], ClientPair[2])
          /\ functions = ExpectedRows(lf_account_id, lf_region)
    /\ Returned =>
          \A i \in 1..Len(accounts) : \A j \in 1..Len(regions) :
              Assumed(accounts[i]) =>
                  RowsOfPair(response.body, accounts[i], regions[j])
                      = ExpectedRows(accounts[i], regions[j])

\* The listing of the first region failed after one row; that row and the row
\* of the second region are both in the body.
C3_Witness ==
    /\ Returned
    /\ Len(accounts) >= 1
    /\ Len(regions) = 2
    /\ listingOutcome[<<accounts[1], regions[1]>>] = ClientError
    /\ listingOutcome[<<accounts[1], regions[2]>>] = "done"
    /\ Len(upstream[<<accounts[1], regions[1]>>]) = 1
    /\ Len(upstream[<<accounts[1], regions[2]>>]) = 1
    /\ Len(response.body) = 2

\* C8: the body returned is the concatenation, over the accounts in directory
\* order whose role was assumed and over the regions in region-listing order,
\* of one row per function summary delivered for that pair, in delivery order,
\* labelled with the pair's account and region, nothing removed, nothing
\* reordered; with no account the body is empty; the status code is 200.
C8_BodyIsConcatenation ==
    Returned =>
        /\ response.statusCode = 200
        /\ Labels(response.body) = ExpectedLabels
        /\ Len(accounts) = 0 => response.body = <<>>

\* Two accounts with one function each, of the same name: the body holds the
\* first account's row, then the second account's.
C8_Witness ==
    /\ Returned
    /\ Len(accounts) = 2
    /\ Len(response.body) = 2
    /\ response.body[1].AccountId = accounts[1]
    /\ response.body[2].AccountId = accounts[2]
    /\ response.body[1].FunctionName = response.body[2].FunctionName

\* C4, as stated: whatever remote call fails, the failure is not escalated
\* to the caller: no run of the handler is left by an exception.
C4_NothingEscalated ==
    pc # "aborted"

\* C4, amended: a ClientError of a role assumption, of a function listing or
\* of a configuration fetch is never escalated; a run is left by an exception
\* only after a failure of the account listing or of the region listing, or
\* after an exception that is no ClientError, and then no envelope is
\* returned; a run that returns, returns the envelope with status code 200
\* and the rows aggregated so far.
C4_HandledFailuresNotEscalated ==
    /\ pc = "aborted" =>
          /\ \/ lastCall.op \in {"list_accounts", "describe_regions"}
             \/ lastCall.outcome = Other
          /\ lastCall.outcome \in {ClientError, Other}
          /\ response = NoResponse
    /\ Returned =>
          /\ response = [statusCode |-> 200, body |-> all_functions]
          /\ "list_accounts" \notin failedOps
          /\ "describe_regions" \notin failedOps

\* A run in which a role assumption, a function listing and a configuration
\* fetch each failed has returned the envelope.
C4_Witness ==
    /\ Returned
    /\ failedOps = {"assume_role", "list_functions", "get_function_configuration"}
    /\ response.statusCode = 200
    /\ Len(response.body) = 1

\* C5, as stated: every row of the result carries the catalog status of its
\* own Runtime, except that a row whose runtime is unresolvable (Runtime
\* "Error retrieving" after a failed fetch, or "Unknown" for a configuration
\* without a Runtime field) carries the status "Unknown".
C5_UnresolvableIsUnknown ==
    Returned =>
        \A k \in 1..Len(response.body) :
            LET row == response.body[k]
            IN  IF row.Runtime \in {"Error retrieving", "Unknown"}
                THEN row.DeprecationInfo = "Unknown"
                ELSE row.DeprecationInfo = get_deprecation_info(row.Runtime)

\* C5, amended: every row of the result carries the catalog status of its own
\* Runtime (for a configuration without a Runtime field the Runtime is
\* "Unknown" and the status is the catalog's answer for "Unknown", which is
\* "No deprecation information available"), except that a row whose
\* configuration fetch failed carries Runtime "Error retrieving" and the
\* status "Unknown".
C5_StatusFromRuntime ==
    /\ Returned =>
          \A k \in 1..Len(response.body) :
              LET row == response.body[k]
              IN  IF row.Runtime = "Error retrieving"
                  THEN row.DeprecationInfo = "Unknown"
                  ELSE row.DeprecationInfo = get_deprecation_info(row.Runtime)
    /\ ListingReturned =>
          /\ Len(functions) = Len(fetches[ClientPair])
          /\ \A k \in 1..Len(functions) :
                /\ functions[k].Runtime = "Error retrieving"
                      <=> fetches[ClientPair][k].outcome = ClientError
                /\ fetches[ClientPair][k].outcome = NoRuntime =>
                      /\ functions[k].Runtime = "Unknown"
                      /\ functions[k].DeprecationInfo = "No deprecation information available"

\* The result holds the row of a configuration without a Runtime field and
\* the row of a failed fetch.
C5_Witness ==
    /\ Returned
    /\ Len(response.body) = 2
    /\ response.body[1].Runtime = "Unknown"
    /\ response.body[1].DeprecationInfo = "No deprecation information available"
    /\ response.body[2].Runtime = "Error retrieving"
    /\ response.body[2].DeprecationInfo = "Unknown"

\* C6: get_deprecation_info answers, for a key of the table, "Deprecated
\* since {date}" when the record is deprecated, "No scheduled deprecation"
\* when it is not and its date is "N/A", "Will be deprecated on {date}"
\* otherwise, and never "No deprecation information available"; for every
\* other identifier it answers "No deprecation information available".
C6_LookupMatchesReference ==
    pc = "looked_up" =>
        /\ lookup_arg \in DOMAIN RUNTIME_DEPRECATIONS =>
              LET rec == RUNTIME_DEPRECATIONS[lookup_arg]
              IN  /\ rec.deprecated =>
                        lookup_result = "Deprecated since " \o rec.date
                  /\ (~rec.deprecated /\ rec.date = "N/A") =>
                        lookup_result = "No scheduled deprecation"
                  /\ (~rec.deprecated /\ rec.date # "N/A") =>
                        lookup_result = "Will be deprecated on " \o rec.date
                  /\ lookup_result # "No deprecation information available"
        /\ lookup_arg \notin DOMAIN RUNTIME_DEPRECATIONS =>
              lookup_result = "No deprecation information available"
        /\ lookup_arg \in {"", "Unknown", "Error retrieving"} =>
              lookup_result = "No deprecation information available"
        /\ lookup_arg = "python3.12" => lookup_result = "No scheduled deprecation"
        /\ lookup_arg = "nodejs4.3" => lookup_result = "Deprecated since 2020-04-06"
        /\ lookup_arg = "java17" => lookup_result = "Will be deprecated on 2026-09-14"

\* The lookup of a runtime with no scheduled date has answered.
C6_Witness ==
    /\ pc = "looked_up"
    /\ lookup_arg = "python3.12"
    /\ lookup_result = "No scheduled deprecation"

\* Nothing has been asked of STS or of the Lambda service.
NoAccountWork ==
    /\ \A a \in AccountIds : nAssume[a] = 0
    /\ \A p \in Pairs : nListing[p] = 0 /\ upstream[p] = <<>> /\ fetches[p] = <<>>

\* C7: a failure of the account listing or of the region listing leaves the
\* handler without an envelope, and at that point no role has been assumed,
\* no function listing started and no configuration fetched; while the
\* account listing runs, the region listing has not been called, and until
\* the region listing has answered no role assumption has been made.
C7_PreconditionsAbort ==
    /\ ("list_accounts" \in failedOps \/ "describe_regions" \in failedOps) =>
          /\ pc = "aborted"
          /\ response = NoResponse
          /\ NoAccountWork
    /\ pc = "list_accounts" => nDescribe = 0 /\ NoAccountWork
    /\ pc = "describe_regions" => nDescribe = 0 /\ NoAccountWork
    /\ nDescribe <= 1

\* The region listing failed after the directory delivered two accounts.
C7_Witness ==
    /\ pc = "aborted"
    /\ "describe_regions" \in failedOps
    /\ Len(accounts) = 2
    /\ NoAccountWork

\* The unit of work of call c is the unit of the failed call f.
SameUnit(f, c) ==
    \/ f.op = "assume_role" /\ c.account = f.account
    \/ f.op = "list_functions" /\ c.account = f.account /\ c.region = f.region
    \/ /\ f.op = "get_function_configuration"
       /\ c.op = f.op /\ c.account = f.account /\ c.region = f.region /\ c.idx = f.idx

C9_CallCounts ==
    /\ \A a \in AccountIds : nAssume[a] <= 1
    /\ \A p \in Pairs :
          /\ nListing[p] <= 1
          /\ Len(fetches[p]) <= Len(upstream[p])
          /\ \A k \in 1..Len(fetches[p]) :
                fetches[p][k].FunctionName = upstream[p][k].FunctionName
    /\ ListingReturned => Len(fetches[ClientPair]) = Len(upstream[ClientPair])
    /\ Returned => \A p \in Pairs : Len(fetches[p]) = Len(upstream[p])

C9_NextUnit ==
    (lastCall.outcome = ClientError /\ lastCall' # lastCall) => ~SameUnit(lastCall, lastCall')

\* C9: no failed call is retried: assume_role is called at most once per
\* account, the listing of a pair is started at most once, the configuration
\* of each function summary delivered is fetched exactly once, and the call
\* that follows a failed call belongs to another unit of work.
C9_NoRetry ==
    []C9_CallCounts /\ [][C9_NextUnit]_vars

\* A run with a failed assumption, a failed listing and a failed fetch has returned.
C9_Witness ==
    /\ Returned
    /\ Len(accounts) = 2
    /\ assumeOutcome[accounts[1]] = ClientError
    /\ \E r \in RegionNames :
          /\ listingOutcome[<<accounts[2], r>>] = ClientError
          /\ Len(fetches[<<accounts[2], r>>]) = 2
          /\ fetches[<<accounts[2], r>>][1].outcome = ClientError

\* C10: while list_functions_in_account runs labelled with account A, its
\* session holds the credentials STS issued for A in the current iteration of
\* the account loop; functions are listed only in accounts whose role was
\* assumed, also after the assumption of a later account has failed.
C10_SessionOfCurrentAccount ==
    /\ pc \in {"paginate", "functions", "extend"} =>
          /\ ai <= Len(accounts)
          /\ lf_account_id = accounts[ai]
          /\ lf_session = session
          /\ lf_session.account = lf_account_id
          /\ lf_session.serial = nAssume[lf_account_id]
          /\ Assumed(lf_account_id)
    /\ \A p \in Pairs : nListing[p] > 0 => Assumed(p[1])
    /\ \A k \in 1..Len(all_functions) : Assumed(all_functions[k].AccountId)

\* The assumption of the second account failed while the session of the
\* first was still bound; only the first account's functions were listed.
C10_Witness ==
    /\ Returned
    /\ Len(accounts) = 2
    /\ Len(regions) >= 1
    /\ Assumed(accounts[1])
    /\ assumeOutcome[accounts[2]] = ClientError
    /\ session.account = accounts[1]
    /\ nListing[<<accounts[1], regions[1]>>] = 1
    /\ Len(all_functions) >= 1

====
